---- MODULE Spec2Model ----
(***************************************************************************)
(* sequelize-model-loader: the loader of src/index.js.                     *)
(*                                                                         *)
(* A JavaScript string is a sequence of one-character strings, so that     *)
(* endsWith, basename, sort, underscore, split, pluralize and join are     *)
(* computed character by character.  A JavaScript value is a tagged        *)
(* record (undefined, null, boolean, string, object), so that truthiness   *)
(* (!x), property lookup and the `in` operator are computed as the         *)
(* language computes them.                                                 *)
(***************************************************************************)
EXTENDS Integers, Sequences, FiniteSets, TLC

VARIABLES directory, options, pc, files, idx, models, defineCalls,
          removeCalls, invocations, logged, result, thrown

vars == <<directory, options, pc, files, idx, models, defineCalls,
          removeCalls, invocations, logged, result, thrown>>

\* The most entries a directory holds.
MaxFiles == 3

(***************************************************************************)
(* Characters and strings                                                  *)
(***************************************************************************)

\* The letters in code order: "A" is code unit 65 and "a" is 97.
Upper ==
  << "A", "B", "C", "D", "E", "F", "G", "H", "I", "J", "K", "L", "M",
     "N", "O", "P", "Q", "R", "S", "T", "U", "V", "W", "X", "Y", "Z" >>

Lower ==
  << "a", "b", "c", "d", "e", "f", "g", "h", "i", "j", "k", "l", "m",
     "n", "o", "p", "q", "r", "s", "t", "u", "v", "w", "x", "y", "z" >>

IndexOf(c, s) == CHOOSE i \in 1..Len(s) : s[i] = c

\* The UTF-16 code unit of a character (letters, space, comma, dot and
\* underscore: the characters of the strings below).
Code(c) ==
  IF \E i \in 1..Len(Upper) : Upper[i] = c THEN 64 + IndexOf(c, Upper)
  ELSE IF \E i \in 1..Len(Lower) : Lower[i] = c THEN 96 + IndexOf(c, Lower)
  ELSE CASE c = " " -> 32
         [] c = "," -> 44
         [] c = "." -> 46
         [] c = "_" -> 95

IsUpper(c) == Code(c) \in 65..90

\* String.prototype.toLowerCase on one character.
LowerChar(c) == IF IsUpper(c) THEN Lower[IndexOf(c, Upper)] ELSE c

toLowerCase(s) == [i \in 1..Len(s) |-> LowerChar(s[i])]

\* The order Array.prototype.sort uses without a comparator: code unit by
\* code unit, a proper prefix first.
RECURSIVE StrLess(_, _)
StrLess(a, b) ==
  IF b = <<>> THEN FALSE
  ELSE IF a = <<>> THEN TRUE
  ELSE IF Code(Head(a)) # Code(Head(b)) THEN Code(Head(a)) < Code(Head(b))
  ELSE StrLess(Tail(a), Tail(b))

\* String.prototype.endsWith
endsWith(s, suffix) ==
  /\ Len(suffix) <= Len(s)
  /\ SubSeq(s, Len(s) - Len(suffix) + 1, Len(s)) = suffix

\* String.prototype.split with a one-character separator.
RECURSIVE split(_, _)
split(s, sep) ==
  IF \A i \in 1..Len(s) : s[i] # sep THEN <<s>>
  ELSE LET k == CHOOSE i \in 1..Len(s) :
                  /\ s[i] = sep
                  /\ \A j \in 1..(i - 1) : s[j] # sep
       IN  <<SubSeq(s, 1, k - 1)>> \o split(SubSeq(s, k + 1, Len(s)), sep)

\* Array.prototype.join
RECURSIVE join(_, _)
join(parts, sep) ==
  IF parts = <<>> THEN <<>>
  ELSE IF Len(parts) = 1 THEN parts[1]
  ELSE parts[1] \o sep \o join(Tail(parts), sep)

(***************************************************************************)
(* JavaScript values                                                       *)
(***************************************************************************)

Undefined == [t |-> "undefined"]

Null == [t |-> "null"]

Bool(b) == [t |-> "boolean", v |-> b]

Str(s) == [t |-> "string", v |-> s]

\* A function value, known by its name only.
Fn(f) == [t |-> "function", v |-> f]

\* An object: r maps each own key to its value.
Obj(r) == [t |-> "object", v |-> r]

EmptyObj == Obj([k \in {} |-> Undefined])

\* The truthiness of a value, as `!x` and `if (x)` read it.
Truthy(x) ==
  CASE x.t = "undefined" -> FALSE
    [] x.t = "null"      -> FALSE
    [] x.t = "boolean"   -> x.v
    [] x.t = "string"    -> x.v # <<>>
    [] OTHER             -> TRUE

\* `k in o`
Has(o, k) == k \in DOMAIN o.v

\* `o.k`: undefined when the object has no such key.
Get(o, k) == IF o.t = "object" /\ Has(o, k) THEN o.v[k] ELSE Undefined

\* `o.k = val`
Set(o, k, val) ==
  Obj([x \in (DOMAIN o.v) \cup {k} |-> IF x = k THEN val ELSE o.v[x]])

\* Object.entries(o), as the set of keys: the order of attachment does not
\* matter, the keys being distinct.
Keys(o) == DOMAIN o.v

(***************************************************************************)
(* Vendor functions: lodash.defaultsdeep and inflection                    *)
(***************************************************************************)

\* lodash defaultsDeep(object, source): every key of source whose value in
\* object is undefined takes source's value; where both values are objects
\* the defaults are merged into the nested object; any other value of
\* object stays.
RECURSIVE defaultsDeep(_, _)
defaultsDeep(object, source) ==
  Obj([k \in (DOMAIN object.v) \cup (DOMAIN source.v) |->
        IF k \notin DOMAIN source.v THEN object.v[k]
        ELSE LET objValue == Get(object, k)
                 srcValue == source.v[k]
             IN  IF objValue = Undefined THEN srcValue
                 ELSE IF objValue.t = "object" /\ srcValue.t = "object"
                      THEN defaultsDeep(objValue, srcValue)
                      ELSE objValue])

\* str.replace(/([A-Z])/g, '_$1')
RECURSIVE PrefixUpper(_)
PrefixUpper(s) ==
  IF s = <<>> THEN <<>>
  ELSE (IF IsUpper(Head(s)) THEN <<"_", Head(s)>> ELSE <<Head(s)>>)
       \o PrefixUpper(Tail(s))

\* inflection.underscore, for a name without "::": every capital gets an
\* underscore before it, one leading underscore is dropped, and the whole
\* is lower-cased.
underscore(str) ==
  LET replaced == PrefixUpper(str)
      stripped == IF replaced # <<>> /\ Head(replaced) = "_"
                  THEN Tail(replaced) ELSE replaced
  IN  toLowerCase(stripped)

Vowels == {"a", "e", "i", "o", "u"}

\* inflection.pluralize, by the rules the words of this model reach: a
\* word in "s" stays, "x", "ch" and "sh" take "es", a consonant and "y"
\* give "ies", and any other word takes "s".
pluralize(str) ==
  LET n == Len(str)
  IN  IF n >= 1 /\ str[n] = "s" THEN str
      ELSE IF n >= 1 /\ str[n] = "x" THEN str \o <<"e", "s">>
      ELSE IF n >= 2 /\ str[n] = "h" /\ str[n - 1] \in {"c", "s"}
           THEN str \o <<"e", "s">>
      ELSE IF n >= 2 /\ str[n] = "y" /\ str[n - 1] \notin Vowels \cup {"y"}
           THEN SubSeq(str, 1, n - 1) \o <<"i", "e", "s">>
      ELSE str \o <<"s">>

(***************************************************************************)
(* The helpers of src/index.js                                             *)
(***************************************************************************)

kModelFileNameSuffix == <<".", "m", "o", "d", "e", "l", ".", "j", "s">>

\* Array.prototype.sort on the names of a directory, which are distinct:
\* the least name first.
RECURSIVE sort(_)
sort(names) ==
  IF names = {} THEN <<>>
  ELSE LET least == CHOOSE x \in names :
                      \A y \in names \ {x} : StrLess(x, y)
       IN  <<least>> \o sort(names \ {least})

\* getModelFileNames as it would be without the filter.
getModelFileNamesUnfiltered(dir) == sort(dir)

\* fs.readdirSync(directory).filter(...).sort(): readdirSync gives the
\* entries of the directory in an order sort() then replaces.
getModelFileNames(dir) ==
  sort({modelFileName \in dir : endsWith(modelFileName, kModelFileNameSuffix)})

\* path.basename(name, ext) of a name without a path separator.
basename(name, ext) ==
  IF name # ext /\ endsWith(name, ext)
  THEN SubSeq(name, 1, Len(name) - Len(ext))
  ELSE name

nameFromFileName(modelFileName) ==
  basename(modelFileName, kModelFileNameSuffix)

\* nameForDefinition as it would be if the name field were ignored.
nameForDefinitionFromFile(definition, modelFileName) ==
  Str(nameFromFileName(modelFileName))

\* The model name, a string value.
nameForDefinition(definition, modelFileName) ==
  IF Has(definition, "name") THEN Get(definition, "name")
  ELSE Str(nameFromFileName(modelFileName))

\* defaultTableName as it would be if the whole name were pluralized.
defaultTableNameWhole(modelName) == pluralize(underscore(modelName))

\* .map((val) => inflection.pluralize(val))
pluralizeEach(vals) == [i \in 1..Len(vals) |-> pluralize(vals[i])]

defaultTableName(modelName) ==
  join(pluralizeEach(split(underscore(modelName), "_")), <<"_">>)

\* setupDefinition as it would be if the defaults were assigned over the
\* params (Object.assign) instead of merged under them.
setupDefinitionOverwriting(definition, modelName) ==
  LET defaultParams == Obj([tableName |-> Str(defaultTableName(modelName.v))])
      params == Get(definition, "params")
  IN  IF ~Truthy(params)
      THEN Set(definition, "params", defaultParams)
      ELSE Set(definition, "params",
               Set(params, "tableName", defaultParams.v.tableName))

\* The definition as setupDefinition leaves it.
setupDefinition(definition, modelName) ==
  LET defaultParams == Obj([tableName |-> Str(defaultTableName(modelName.v))])
  IN  IF ~Truthy(Get(definition, "params"))
      THEN Set(definition, "params", defaultParams)
      ELSE Set(definition, "params",
               defaultsDeep(Get(definition, "params"), defaultParams))

\* applySchema as it would be if the option overrode the definition.
applySchemaOverriding(definition, opts) ==
  IF Truthy(opts.schema)
  THEN Set(definition, "params",
           Set(Get(definition, "params"), "schema", opts.schema))
  ELSE definition

\* Lines 124-125: the loader's schema option, where the definition's
\* params carry no truthy schema and the option is truthy.
applySchema(definition, opts) ==
  LET params == Get(definition, "params")
  IN  IF ~Truthy(Get(params, "schema")) /\ Truthy(opts.schema)
      THEN Set(definition, "params", Set(params, "schema", opts.schema))
      ELSE definition

\* Lines 121-125: the model name and the definition handed to the ORM.
resolve(definition, modelFileName, opts) ==
  LET modelName == nameForDefinition(definition, modelFileName)
  IN  [modelName  |-> modelName,
       definition |-> applySchema(setupDefinition(definition, modelName), opts)]

\* The error of line 119 as it would be without the file name.
MissingReturnValueUnnamed(modelFileName) ==
  [name    |-> "Error",
   message |-> <<"M", "i", "s", "s", "i", "n", "g", " ", "r", "e", "t", "u",
                 "r", "n", " ", "v", "a", "l", "u", "e">>]

\* The error of line 119.
MissingReturnValue(modelFileName) ==
  [name    |-> "Error",
   message |-> <<"M", "i", "s", "s", "i", "n", "g", " ", "r", "e", "t", "u",
                 "r", "n", " ", "v", "a", "l", "u", "e", " ", "f", "r", "o",
                 "m", " ", "m", "o", "d", "e", "l", " ", "f", "i", "l", "e",
                 ",", " ">> \o modelFileName]

(***************************************************************************)
(* The ORM, as far as the loader uses it                                   *)
(***************************************************************************)

\* sequelize.define(modelName, fields, params): the n-th model the ORM
\* defines, with the declared attributes and the default primary key "id".
define(n, modelName, fields, params) ==
  [id         |-> n,
   name       |-> modelName.v,
   attributes |-> Keys(fields) \cup {"id"},
   options    |-> params,
   statics    |-> EmptyObj,
   prototype  |-> EmptyObj,
   definition |-> Undefined]

\* model.removeAttribute(attribute)
removeAttribute(model, attribute) ==
  [model EXCEPT !.attributes = @ \ {attribute}]

\* model.getTableName()
getTableName(model) == Get(model.options, "tableName")

\* Lines 132-140: each method of the map is set on the target by its name.
attachMethods(target, methods) ==
  IF ~Truthy(methods) THEN target
  ELSE Obj([k \in Keys(target) \cup Keys(methods) |->
             IF k \in Keys(methods) THEN methods.v[k] ELSE target.v[k]])

\* wantsNoPrimaryKey as it would be if the flag's presence were tested
\* instead of its value.
wantsNoPrimaryKeyWhenSet(definition) ==
  LET params == Get(definition, "params")
  IN  params.t = "object" /\ Has(params, "noPrimaryKey")

\* Line 129: whether the loader removes the primary key.
wantsNoPrimaryKey(definition) ==
  Truthy(Get(Get(definition, "params"), "noPrimaryKey"))

\* Lines 129-144 on a model just defined.
decorate(model, definition) ==
  LET m1 == IF wantsNoPrimaryKey(definition)
            THEN removeAttribute(model, "id") ELSE model
  IN  [m1 EXCEPT
        !.statics    = attachMethods(@, Get(definition, "classMethods")),
        !.prototype  = attachMethods(@, Get(definition, "instanceMethods")),
        !.definition = definition]

\* models[modelName] = model
Put(registry, key, model) ==
  [k \in (DOMAIN registry) \cup {key} |->
     IF k = key THEN model ELSE registry[k]]

(***************************************************************************)
(* The inputs: directories, loader options and what a model file returns   *)
(***************************************************************************)

\* "B.model.js", "UserAccount.model.js" and "city.model.js" are model
\* files; "a.model.json" and "model.js" are not.
FileNames ==
  { <<"B">> \o kModelFileNameSuffix,
    <<"U", "s", "e", "r", "A", "c", "c", "o", "u", "n", "t">>
      \o kModelFileNameSuffix,
    <<"c", "i", "t", "y">> \o kModelFileNameSuffix,
    <<"a">> \o kModelFileNameSuffix \o <<"o", "n">>,
    <<"m", "o", "d", "e", "l", ".", "j", "s">> }

Directories == {d \in SUBSET FileNames : Cardinality(d) <= MaxFiles}

Public == Str(<<"p", "u", "b", "l", "i", "c">>)

Private == Str(<<"p", "r", "i", "v", "a", "t", "e">>)

Custom == Str(<<"c", "u", "s", "t", "o", "m">>)

Post == Str(<<"P", "o", "s", "t">>)

\* options: schema absent, "public" or the empty string; a logger or none;
\* a context.
Options ==
  [schema  : {Undefined, Public, Str(<<>>)},
   logger  : {Undefined, Fn("logger")},
   context : {Str(<<"c", "t", "x">>)}]

Fields == Obj([title |-> Str(<<"T", "E", "X", "T">>)])

\* The definitions a model file may return: with and without a name, with
\* no params, null params, and params that set some of tableName, schema,
\* noPrimaryKey and a nested option; two of them share the name "Post".
Definitions ==
  { Obj([fields |-> Fields]),
    Obj([name |-> Post, fields |-> Fields,
         params |-> Obj([tableName |-> Custom])]),
    Obj([name |-> Post, fields |-> Fields,
         params |-> Obj([schema |-> Private, noPrimaryKey |-> Bool(TRUE)])]),
    Obj([fields |-> Fields,
         params |-> Obj([schema |-> Str(<<>>), noPrimaryKey |-> Bool(FALSE)])]),
    Obj([fields |-> Fields, params |-> Null]),
    Obj([fields |-> Fields,
         params |-> Obj([name |-> Obj([singular |-> Str(<<"x">>)]),
                         noPrimaryKey |-> Bool(TRUE)]),
         classMethods |-> Obj([findRecent |-> Fn("findRecent")]),
         instanceMethods |-> Obj([describe |-> Fn("describe")])]) }

\* What the function a model file exports may return.
ReturnValues == {Undefined, Null} \cup Definitions

(***************************************************************************)
(* The loader: module.exports of src/index.js                              *)
(***************************************************************************)

Init ==
  /\ directory \in Directories
  /\ options \in Options
  /\ pc = "ready"
  /\ files = <<>>
  /\ idx = 0
  /\ models = <<>>
  /\ defineCalls = <<>>
  /\ removeCalls = <<>>
  /\ invocations = <<>>
  /\ logged = <<>>
  /\ result = <<>>
  /\ thrown = <<>>

\* Whether line 118 takes the return value for a missing one.
isMissing(definition) == ~Truthy(definition)

\* The call of line 117, as the model file sees it: its name, the registry
\* as it is at the call, the context, and what the file returned.
Invocation(modelFileName, returned, threw) ==
  [file     |-> modelFileName,
   models   |-> models,
   context  |-> options.context,
   returned |-> returned,
   threw    |-> threw]

\* Lines 111-113: the registry starts empty and the model files are listed.
Load ==
  /\ pc = "ready"
  /\ models' = <<>>
  /\ files' = getModelFileNames(directory)
  /\ idx' = 1
  /\ pc' = "loading"
  /\ UNCHANGED <<directory, options, defineCalls, removeCalls, invocations,
                 logged, result, thrown>>

\* Line 154: fs.readdirSync throws (the directory cannot be read).
ReadDirThrows ==
  /\ pc = "ready"
  /\ thrown' = <<[name |-> "SystemError", message |-> <<>>]>>
  /\ pc' = "threw"
  /\ UNCHANGED <<directory, options, files, idx, models, defineCalls,
                 removeCalls, invocations, logged, result>>

\* Line 117: loading or calling the model file throws.
InvokeThrows ==
  /\ pc = "loading" /\ idx <= Len(files)
  /\ invocations' = Append(invocations, Invocation(files[idx], Undefined, TRUE))
  /\ thrown' = <<[name |-> "ModelFileError", message |-> <<>>]>>
  /\ pc' = "threw"
  /\ UNCHANGED <<directory, options, files, idx, models, defineCalls,
                 removeCalls, logged, result>>

\* Lines 115-147, one pass of the loop in which nothing but line 119 may
\* throw: the file returns `returned`.
LoadFile(returned) ==
  /\ pc = "loading" /\ idx <= Len(files)
  /\ invocations' = Append(invocations, Invocation(files[idx], returned, FALSE))
  /\ IF isMissing(returned)
     THEN /\ thrown' = <<MissingReturnValue(files[idx])>>
          /\ pc' = "threw"
          /\ UNCHANGED <<idx, models, defineCalls, removeCalls, logged>>
     ELSE LET r == resolve(returned, files[idx], options)
              params == Get(r.definition, "params")
              fields == Get(r.definition, "fields")
              model == define(Len(defineCalls) + 1, r.modelName, fields, params)
              final == decorate(model, r.definition)
          IN  /\ defineCalls' = Append(defineCalls,
                    [file |-> files[idx], modelName |-> r.modelName,
                     fields |-> fields, params |-> params, threw |-> FALSE])
              /\ models' = Put(models, r.modelName.v, final)
              /\ removeCalls' =
                   IF wantsNoPrimaryKey(r.definition)
                   THEN Append(removeCalls,
                          [model |-> model.id, attribute |-> "id",
                           threw |-> FALSE])
                   ELSE removeCalls
              /\ logged' =
                   IF Truthy(options.logger)
                   THEN Append(logged, [modelName |-> r.modelName,
                                        table |-> getTableName(final)])
                   ELSE logged
              /\ idx' = idx + 1
              /\ UNCHANGED <<pc, thrown>>
  /\ UNCHANGED <<directory, options, files, result>>

\* Lines 115-127, a pass in which sequelize.define throws: nothing is
\* assigned to the registry.
DefineThrows(returned) ==
  /\ pc = "loading" /\ idx <= Len(files)
  /\ ~isMissing(returned)
  /\ LET r == resolve(returned, files[idx], options)
     IN  defineCalls' = Append(defineCalls,
            [file |-> files[idx], modelName |-> r.modelName,
             fields |-> Get(r.definition, "fields"),
             params |-> Get(r.definition, "params"), threw |-> TRUE])
  /\ invocations' = Append(invocations, Invocation(files[idx], returned, FALSE))
  /\ thrown' = <<[name |-> "OrmError", message |-> <<>>]>>
  /\ pc' = "threw"
  /\ UNCHANGED <<directory, options, files, idx, models, removeCalls, logged,
                 result>>

\* Lines 115-130, a pass in which model.removeAttribute throws: the model
\* is defined and in the registry, with its primary key.
RemoveAttributeThrows(returned) ==
  /\ pc = "loading" /\ idx <= Len(files)
  /\ ~isMissing(returned)
  /\ LET r == resolve(returned, files[idx], options)
         params == Get(r.definition, "params")
         fields == Get(r.definition, "fields")
         model == define(Len(defineCalls) + 1, r.modelName, fields, params)
     IN  /\ wantsNoPrimaryKey(r.definition)
         /\ defineCalls' = Append(defineCalls,
               [file |-> files[idx], modelName |-> r.modelName,
                fields |-> fields, params |-> params, threw |-> FALSE])
         /\ models' = Put(models, r.modelName.v, model)
         /\ removeCalls' = Append(removeCalls,
               [model |-> model.id, attribute |-> "id", threw |-> TRUE])
  /\ invocations' = Append(invocations, Invocation(files[idx], returned, FALSE))
  /\ thrown' = <<[name |-> "OrmError", message |-> <<>>]>>
  /\ pc' = "threw"
  /\ UNCHANGED <<directory, options, files, idx, logged, result>>

\* Line 150: every file is processed and the registry is returned.
Return ==
  /\ pc = "loading" /\ idx > Len(files)
  /\ result' = <<models>>
  /\ pc' = "returned"
  /\ UNCHANGED <<directory, options, files, idx, models, defineCalls,
                 removeCalls, invocations, logged, thrown>>

Next ==
  \/ Load
  \/ ReadDirThrows
  \/ InvokeThrows
  \/ \E returned \in ReturnValues : LoadFile(returned)
  \/ \E returned \in ReturnValues : DefineThrows(returned)
  \/ \E returned \in ReturnValues : RemoveAttributeThrows(returned)
  \/ Return

Spec == Init /\ [][Next]_vars

(***************************************************************************)
(* Properties                                                              *)
(*                                                                         *)
(* A failure ends the call, so the i-th call of sequelize.define is made   *)
(* for the i-th file invoked: defineCalls[i] and invocations[i] belong to  *)
(* the same file, and the model of that file has id i.                     *)
(***************************************************************************)

IsModelFile(f) == endsWith(f, kModelFileNameSuffix)

\* The schema, tableName or flag the file's own definition set.
OwnParam(returned, key) == Get(Get(returned, "params"), key)

UserAccount == <<"U", "s", "e", "r", "A", "c", "c", "o", "u", "n", "t">>

\* C1: the files are invoked in lexicographic order of name, and the
\* registry a file's function receives holds the model of every file that
\* sorts before it and of no file that sorts after it.
C1_SortedOrderAndVisibility ==
  \A i \in 1..Len(invocations) :
    LET seen == invocations[i].models
    IN  /\ invocations[i].file = files[i]
        /\ \A j \in 1..(i - 1) : StrLess(files[j], files[i])
        /\ \A j \in 1..Len(files) :
             (j < i) <=> (\E k \in DOMAIN seen :
                            defineCalls[seen[k].id].file = files[j])

\* C2: a file that returns a falsy value makes the call fail with an error
\* whose message ends with the file's name; define is not called for the
\* file, no later file is invoked and no registry is returned.
C2_FalsyReturnAborts ==
  \A i \in 1..Len(invocations) :
    LET inv == invocations[i]
    IN  (~inv.threw /\ inv.returned \in {Undefined, Null}) =>
          /\ pc = "threw"
          /\ Len(thrown) = 1
          /\ thrown[1].name = "Error"
          /\ endsWith(thrown[1].message, inv.file)
          /\ \A j \in 1..Len(defineCalls) : defineCalls[j].file # inv.file
          /\ i = Len(invocations)
          /\ result = <<>>

\* C2 witness: the second of three files returned a falsy value, after the
\* first was registered.
C2_Witness ==
  /\ Len(files) = 3
  /\ Len(invocations) = 2
  /\ Len(defineCalls) = 1
  /\ ~invocations[2].threw
  /\ invocations[2].returned = Null

\* C3: the returned registry has one entry per model file, under the names
\* the files resolved to, also when two files resolve to the same name.
C3_OneEntryPerFile ==
  pc = "returned" =>
    /\ DOMAIN result[1] =
         {defineCalls[i].modelName.v : i \in 1..Len(defineCalls)}
    /\ Cardinality(DOMAIN result[1]) = Len(files)

\* C4: setupDefinition keeps every key and value of the definition's
\* params, at any depth, and adds at most tableName; without a params
\* object the params are exactly the default table name.  The params
\* handed to the ORM keep them too (schema aside, which the loader's
\* option may fill in afterwards).
C4_DefaultsKeepExplicitParams ==
  \A i \in 1..Len(defineCalls) :
    LET returned == invocations[i].returned
        call == defineCalls[i]
        before == Get(returned, "params")
        after == setupDefinition(returned, call.modelName)
        params == Get(after, "params")
    IN  /\ DOMAIN after.v = (DOMAIN returned.v) \cup {"params"}
        /\ \A k \in (DOMAIN returned.v) \ {"params"} : after.v[k] = returned.v[k]
        /\ IF before.t = "object"
           THEN /\ DOMAIN params.v = (DOMAIN before.v) \cup {"tableName"}
                /\ \A k \in DOMAIN before.v : params.v[k] = before.v[k]
                /\ \A k \in (DOMAIN before.v) \ {"schema"} :
                     Get(call.params, k) = before.v[k]
           ELSE /\ DOMAIN params.v = {"tableName"}
                /\ params.v.tableName.t = "string"
                /\ DOMAIN call.params.v \subseteq {"tableName", "schema"}

\* C4 witness: a definition with an explicit tableName and one with a
\* nested option were registered, and a definition with no params object.
C4_Witness ==
  /\ \E i \in 1..Len(defineCalls) :
       /\ OwnParam(invocations[i].returned, "tableName") = Custom
       /\ Get(defineCalls[i].params, "tableName") = Custom
  /\ \E i \in 1..Len(defineCalls) :
       OwnParam(invocations[i].returned, "name").t = "object"
  /\ \E i \in 1..Len(defineCalls) :
       ~Has(invocations[i].returned, "params")

\* C5: the params handed to the ORM carry the definition's own schema when
\* it gave one (a non-empty string, as line 124 reads it), the loader's
\* schema option when the definition gave none and the option is given,
\* and no schema when neither is given.
C5_SchemaIsFallback ==
  \A i \in 1..Len(defineCalls) :
    LET own == OwnParam(invocations[i].returned, "schema")
        passed == Get(defineCalls[i].params, "schema")
    IN  IF Truthy(own) THEN passed = own
        ELSE IF Truthy(options.schema) THEN passed = options.schema
        ELSE passed = own /\ ~Truthy(passed)

\* C5 witness: under the option "public", one definition with the schema
\* "private" and one without a schema were registered.
C5_Witness ==
  /\ options.schema = Public
  /\ \E i \in 1..Len(defineCalls) :
       /\ OwnParam(invocations[i].returned, "schema") = Private
       /\ Get(defineCalls[i].params, "schema") = Private
  /\ \E i \in 1..Len(defineCalls) :
       /\ OwnParam(invocations[i].returned, "schema") = Undefined
       /\ Get(defineCalls[i].params, "schema") = Public

\* C6: the loader asks the ORM to remove "id" from a model exactly when the
\* params handed to define set noPrimaryKey to a truthy value, and in the
\* returned registry the models with the flag have no "id" attribute and
\* the others have it.
C6_NoPrimaryKeyRemovesId ==
  /\ \A i \in 1..Len(defineCalls) :
       ~defineCalls[i].threw =>
         (Truthy(Get(defineCalls[i].params, "noPrimaryKey"))
            <=> \E j \in 1..Len(removeCalls) :
                  removeCalls[j].model = i /\ removeCalls[j].attribute = "id")
  /\ pc = "returned" =>
       \A k \in DOMAIN result[1] :
         Truthy(Get(result[1][k].options, "noPrimaryKey"))
           <=> "id" \notin result[1][k].attributes

\* C6 witness: the returned registry holds a model without "id", a model
\* whose flag is false and a model without the flag.
C6_Witness ==
  /\ pc = "returned"
  /\ \E k \in DOMAIN result[1] : "id" \notin result[1][k].attributes
  /\ \E k \in DOMAIN result[1] :
       Get(result[1][k].options, "noPrimaryKey") = Bool(FALSE)
  /\ \E k \in DOMAIN result[1] :
       Get(result[1][k].options, "noPrimaryKey") = Undefined

\* C7: where the definition set no tableName, the tableName handed to the
\* ORM has one segment per segment of the underscored model name, each the
\* plural of that segment; "UserAccount" gives "users_accounts".
C7_DefaultTableName ==
  \A i \in 1..Len(defineCalls) :
    LET call == defineCalls[i]
        tableName == Get(call.params, "tableName")
        segments == split(underscore(call.modelName.v), "_")
    IN  OwnParam(invocations[i].returned, "tableName") = Undefined =>
          /\ tableName.t = "string"
          /\ split(tableName.v, "_") =
               [n \in 1..Len(segments) |-> pluralize(segments[n])]
          /\ call.modelName.v = UserAccount =>
               tableName.v = <<"u", "s", "e", "r", "s", "_",
                               "a", "c", "c", "o", "u", "n", "t", "s">>

\* C7 witness: the model "UserAccount" was defined with the default table
\* name.
C7_Witness ==
  \E i \in 1..Len(defineCalls) :
    /\ defineCalls[i].modelName.v = UserAccount
    /\ OwnParam(invocations[i].returned, "tableName") = Undefined
    /\ Len(split(Get(defineCalls[i].params, "tableName").v, "_")) = 2

\* C8: the name handed to define is the definition's name field when it has
\* one and otherwise the file name without ".model.js", and the model just
\* defined is in the registry under that name.
C8_ResolvedName ==
  \A i \in 1..Len(defineCalls) :
    LET call == defineCalls[i]
        returned == invocations[i].returned
    IN  /\ call.file = invocations[i].file
        /\ IF "name" \in DOMAIN returned.v
           THEN call.modelName = returned.v.name
           ELSE call.modelName.v \o kModelFileNameSuffix = call.file
        /\ (i = Len(defineCalls) /\ ~call.threw) =>
             /\ call.modelName.v \in DOMAIN models
             /\ models[call.modelName.v].id = i
             /\ models[call.modelName.v].name = call.modelName.v

\* C8 witness: a load returned after registering a definition with a name
\* field and a definition without one.
C8_Witness ==
  /\ pc = "returned"
  /\ \E i \in 1..Len(defineCalls) : Has(invocations[i].returned, "name")
  /\ \E i \in 1..Len(defineCalls) : ~Has(invocations[i].returned, "name")

\* Whether the call has ended after listing the directory.
Ended ==
  \/ pc = "returned"
  \/ pc = "threw" /\ thrown[1].name # "SystemError"

\* C9 as stated: once the call has ended, every file of the directory whose
\* name ends with ".model.js" was invoked exactly once, and no other file
\* was invoked or registered.
C9_EveryModelFileExactlyOnce ==
  Ended =>
    /\ \A f \in directory :
         IsModelFile(f) =>
           Cardinality({i \in 1..Len(invocations) : invocations[i].file = f}) = 1
    /\ \A i \in 1..Len(invocations) : IsModelFile(invocations[i].file)

\* C9 as amended: only files of the directory whose name ends with
\* ".model.js" are invoked or registered, each at most once per call, and
\* each exactly once in a call that returns; a call that fails has invoked
\* the files up to the failing one only.
C9_OnlyModelFilesAtMostOnce ==
  /\ \A i \in 1..Len(invocations) :
       /\ invocations[i].file \in directory
       /\ IsModelFile(invocations[i].file)
       /\ \A j \in 1..Len(invocations) :
            invocations[j].file = invocations[i].file => j = i
  /\ \A i \in 1..Len(defineCalls) :
       /\ defineCalls[i].file \in directory
       /\ IsModelFile(defineCalls[i].file)
  /\ pc = "returned" =>
       \A f \in directory :
         IsModelFile(f) <=> \E i \in 1..Len(invocations) : invocations[i].file = f
  /\ (pc = "threw" /\ invocations # <<>>) =>
       \A f \in directory :
         (IsModelFile(f) /\ StrLess(f, invocations[Len(invocations)].file))
           => \E i \in 1..Len(invocations) : invocations[i].file = f

\* C9 witness: a load of a directory with two model files and another file
\* returned.
C9_Witness ==
  /\ pc = "returned"
  /\ Len(invocations) = 2
  /\ \E f \in directory : ~IsModelFile(f)

\* C10: a step that fails invokes no later file and leaves every define
\* call made and every model in the registry as it was.
C10_FailureKeepsEarlierModels ==
  [][(pc = "loading" /\ pc' = "threw") =>
       /\ Len(invocations') = Len(invocations) + 1
       /\ SubSeq(defineCalls', 1, Len(defineCalls)) = defineCalls
       /\ \A k \in DOMAIN models :
            k \in DOMAIN models' /\ models'[k] = models[k]]_vars

====
